---- MODULE Spec2Model ----
(***************************************************************************)
(* ic-verify-assets: the command line tool that compares the digests an    *)
(* asset manifest (a JSON file or an asset canister's list query) promises *)
(* with the digests of the files of a dist directory.                      *)
(*                                                                         *)
(* Strings whose characters matter are sequences of one-character strings  *)
(* (digests) or of path tokens (paths: names and separators alternate).    *)
(* A JavaScript object used as a map is the sequence of its entries in     *)
(* insertion order, which is the order Object.entries and Object.keys use. *)
(***************************************************************************)
EXTENDS Integers, Sequences, FiniteSets, TLC

VARIABLES argv, sep, disk, pc, asset, n, filesMap, expectedFilesMap,
          stack, actualFilesMap, discrepancies, started, stdout, stderr,
          exitCode

vars == <<argv, sep, disk, pc, asset, n, filesMap, expectedFilesMap,
          stack, actualFilesMap, discrepancies, started, stdout, stderr,
          exitCode>>

(* ------------------------------ bounds -------------------------------- *)

\* Longest manifest (number of AssetRecords) an adapter is given.
MaxRecords == 2

\* Longest encodings list of one AssetRecord.
MaxEncodings == 2

(* ------------------------------ helpers ------------------------------- *)

Range(s) == {s[i] : i \in DOMAIN s}

SeqsUpTo(S, k) == UNION {[1..m -> S] : m \in 0..k}

\* The value of a command line option that was not given.
Undefined == "<undefined>"

\* JavaScript truthiness of an option value (a string or undefined).
Truthy(v) == v # Undefined /\ v # ""

(* --------------------------- JS object maps --------------------------- *)

\* map.hasOwnProperty(path)
HasOwnProperty(map, path) == \E i \in DOMAIN map : map[i].path = path

\* map[path], for a path the map has
Get(map, path) == map[CHOOSE i \in DOMAIN map : map[i].path = path].hash

\* map[path] = hash: an existing property keeps its place, a new one is last
Put(map, path, hash) ==
    IF HasOwnProperty(map, path)
    THEN [i \in DOMAIN map |->
            IF map[i].path = path THEN [path |-> path, hash |-> hash] ELSE map[i]]
    ELSE Append(map, [path |-> path, hash |-> hash])

RECURSIVE ObjectAssign(_, _)
\* Object.assign(target, source)
ObjectAssign(target, source) ==
    IF source = <<>> THEN target
    ELSE ObjectAssign(Put(target, Head(source).path, Head(source).hash),
                      Tail(source))

Keys(map) == {map[i].path : i \in DOMAIN map}

(* ------------------------------ digests ------------------------------- *)

LowerChar(c) ==
    CASE c = "A" -> "a" [] c = "B" -> "b" [] c = "C" -> "c"
      [] c = "D" -> "d" [] c = "E" -> "e" [] c = "F" -> "f"
      [] OTHER -> c

\* String.prototype.toLowerCase on a hex string
ToLowerCase(s) == [i \in DOMAIN s |-> LowerChar(s[i])]

HexDigits == <<"0", "1", "2", "3", "4", "5", "6", "7",
               "8", "9", "a", "b", "c", "d", "e", "f">>

\* byte.toString(16)
ToString16(byte) ==
    IF byte < 16 THEN <<HexDigits[byte + 1]>>
    ELSE <<HexDigits[(byte \div 16) + 1], HexDigits[(byte % 16) + 1]>>

\* s.padStart(2, "0")
PadStart2(s) == IF Len(s) < 2 THEN <<"0">> \o s ELSE s

RECURSIVE BytesToHex(_)
\* Array.from(bytes).map(b => b.toString(16).padStart(2, "0")).join("")
BytesToHex(bytes) ==
    IF bytes = <<>> THEN <<>>
    ELSE PadStart2(ToString16(Head(bytes))) \o BytesToHex(Tail(bytes))

RECURSIVE DigestHex(_)
\* hashSum.digest("hex"): Node renders the digest bytes in lower-case hex
DigestHex(bytes) ==
    IF bytes = <<>> THEN <<>>
    ELSE <<HexDigits[(Head(bytes) \div 16) + 1],
           HexDigits[(Head(bytes) % 16) + 1]>> \o DigestHex(Tail(bytes))

(* ------------------------------- inputs ------------------------------- *)

\* Digests as a manifest file may spell them, and as raw bytes.
HexStrings == {<<"0", "A">>, <<"d", "e", "a", "d">>}
ByteStrings == {<<10>>, <<222, 173>>}

\* sha256 is an optional value: the empty container or one digest. The
\* adapters read it only in an entry whose content_encoding is "identity".
FileEncodingEntries ==
    [content_encoding : {"identity"},
     sha256 : {<<>>} \cup {<<d>> : d \in HexStrings}]
    \cup {[content_encoding |-> "gzip", sha256 |-> << <<"d", "e", "a", "d">> >>]}

CanisterEncodingEntries ==
    [content_encoding : {"identity"},
     sha256 : {<<>>} \cup {<<d>> : d \in ByteStrings}]
    \cup {[content_encoding |-> "gzip", sha256 |-> << <<222, 173>> >>]}

ManifestKeys == {<<"/", "a.js">>, <<"/", "sub", "/", "dir", "/", "file.txt">>}

FileAssetRecords ==
    [key : ManifestKeys, encodings : SeqsUpTo(FileEncodingEntries, MaxEncodings)]

CanisterAssetRecords ==
    [key : ManifestKeys, encodings : SeqsUpTo(CanisterEncodingEntries, MaxEncodings)]

\* No record has been taken from the manifest yet.
NoAsset == [key |-> <<>>, encodings |-> <<>>]

File(name, sha) ==
    [name |-> name, isDirectory |-> FALSE, children |-> <<>>, sha256 |-> sha]

Dir(name, children) ==
    [name |-> name, isDirectory |-> TRUE, children |-> children, sha256 |-> <<>>]

\* The dist directories the tool is run on (the entries of the root).
Disks ==
    { <<>>,
      <<File("a.js", <<10>>)>>,
      <<File("a.js", <<222, 173>>),
        Dir("sub", <<Dir("dir", <<File("file.txt", <<10>>)>>)>>)>>,
      <<Dir("sub", <<>>), File("extra.js", <<10>>), File("a.js", <<222, 173>>)>>,
      <<Dir("sub", <<Dir("dir", <<File("file.txt", <<222, 173>>)>>)>>),
        File("a.js", <<10>>)>> }

\* path.sep of the host: POSIX or Windows.
Separators == {"/", "\\"}

Argvs ==
    [distDir : {Undefined, "dist"},
     assetsJson : {Undefined, "", "assets.json"},
     canisterId : {Undefined, "", "aaaaa-aa"}]

(* ------------------------------- paths -------------------------------- *)

\* argv.distDir as a path
DistDirPath == <<argv.distDir>>

\* path.join(dir, name) on a host whose separator is sep
Join(dir, name) == dir \o <<sep, name>>

\* path.relative(from, to) for a path `to` at or below `from`
Relative(from, to) == SubSeq(to, Len(from) + 2, Len(to))

\* The names of a relative path (its tokens without the separators).
NamesOf(rel) == [i \in 1..((Len(rel) + 1) \div 2) |-> rel[2 * i - 1]]

RECURSIVE Descend(_, _)
\* The entries of the directory reached from `entries` through `names`.
Descend(entries, names) ==
    IF names = <<>> THEN entries
    ELSE LET e == CHOOSE e \in Range(entries) : e.name = Head(names)
         IN  Descend(e.children, Tail(names))

\* fs.readdir(dir, {withFileTypes: true}) when it succeeds
Readdir(dir) ==
    LET nodes == Descend(disk, NamesOf(Relative(DistDirPath, dir)))
    IN  [i \in DOMAIN nodes |->
            [name |-> nodes[i].name, isDirectory |-> nodes[i].isDirectory]]

\* hashFile(filePath) when fs.readFile succeeds
hashFile(filePath) ==
    LET names == NamesOf(Relative(DistDirPath, filePath))
        nodes == Descend(disk, SubSeq(names, 1, Len(names) - 1))
        node == CHOOSE e \in Range(nodes) : e.name = names[Len(names)]
    IN  DigestHex(node.sha256)

\* `/${relativePath}`
FileKey(relativePath) == <<"/">> \o relativePath

(* ----------------------------- the adapters --------------------------- *)

\* The bug of taking the last identity entry (findLast for find).
FindLastIdentity(encodings) ==
    LET I == {i \in DOMAIN encodings :
                encodings[i].content_encoding = "identity"}
    IN  IF I = {} THEN <<>>
        ELSE <<encodings[CHOOSE i \in I : \A j \in I : i >= j]>>

\* encodings.find(e => e.content_encoding === "identity"): <<>> is undefined
FindIdentity(encodings) ==
    LET I == {i \in DOMAIN encodings :
                encodings[i].content_encoding = "identity"}
    IN  IF I = {} THEN <<>>
        ELSE <<encodings[CHOOSE i \in I : \A j \in I : i <= j]>>

\* identityEncoding.sha256[0] is undefined, so reading through it throws
MissingDigest(identityEncoding) == identityEncoding.sha256 = <<>>

\* The bug of storing the manifest's digest as it is spelled.
ManifestDigestAsSpelled(identityEncoding) == identityEncoding.sha256[1]

\* identityEncoding.sha256[0].toLowerCase()
ManifestDigest(identityEncoding) == ToLowerCase(identityEncoding.sha256[1])

\* Array.from(identityEncoding.sha256[0]).map(...).join("")
CanisterDigest(identityEncoding) == BytesToHex(identityEncoding.sha256[1])

(* ---------------------------- the comparator -------------------------- *)

\* The bug of an inverted digest test (=== for !==).
compareFileMapsInvertedTest(map1, map2) ==
    LET \* first loop, first branch: !map2.hasOwnProperty(path)
        only1 == SelectSeq(map1, LAMBDA e : ~HasOwnProperty(map2, e.path))
        \* first loop, second branch: hash === map2[path]
        differ == SelectSeq(map1, LAMBDA e : /\ HasOwnProperty(map2, e.path)
                                            /\ e.hash = Get(map2, e.path))
        \* second loop
        only2 == SelectSeq(map2, LAMBDA e : ~HasOwnProperty(map1, e.path))
    IN  [onlyInMap1 |-> [i \in DOMAIN only1 |-> only1[i].path],
         hashMismatch |->
            [i \in DOMAIN differ |->
                [path |-> differ[i].path, map1Hash |-> differ[i].hash,
                 map2Hash |-> Get(map2, differ[i].path)]],
         onlyInMap2 |-> [i \in DOMAIN only2 |-> only2[i].path]]

\* The bug of a second loop that forgets to look the key up in map1.
compareFileMapsAllOfMap2(map1, map2) ==
    LET \* first loop, first branch: !map2.hasOwnProperty(path)
        only1 == SelectSeq(map1, LAMBDA e : ~HasOwnProperty(map2, e.path))
        \* first loop, second branch: hash !== map2[path]
        differ == SelectSeq(map1, LAMBDA e : /\ HasOwnProperty(map2, e.path)
                                            /\ e.hash # Get(map2, e.path))
        \* second loop
        only2 == SelectSeq(map2, LAMBDA e : TRUE)
    IN  [onlyInMap1 |-> [i \in DOMAIN only1 |-> only1[i].path],
         hashMismatch |->
            [i \in DOMAIN differ |->
                [path |-> differ[i].path, map1Hash |-> differ[i].hash,
                 map2Hash |-> Get(map2, differ[i].path)]],
         onlyInMap2 |-> [i \in DOMAIN only2 |-> only2[i].path]]

\* The two loops of compareFileMaps; push keeps the order of iteration.
compareFileMaps(map1, map2) ==
    LET \* first loop, first branch: !map2.hasOwnProperty(path)
        only1 == SelectSeq(map1, LAMBDA e : ~HasOwnProperty(map2, e.path))
        \* first loop, second branch: hash !== map2[path]
        differ == SelectSeq(map1, LAMBDA e : /\ HasOwnProperty(map2, e.path)
                                            /\ e.hash # Get(map2, e.path))
        \* second loop
        only2 == SelectSeq(map2, LAMBDA e : ~HasOwnProperty(map1, e.path))
    IN  [onlyInMap1 |-> [i \in DOMAIN only1 |-> only1[i].path],
         hashMismatch |->
            [i \in DOMAIN differ |->
                [path |-> differ[i].path, map1Hash |-> differ[i].hash,
                 map2Hash |-> Get(map2, differ[i].path)]],
         onlyInMap2 |-> [i \in DOMAIN only2 |-> only2[i].path]]

NoDiscrepancies == [onlyInMap1 |-> <<>>, hashMismatch |-> <<>>, onlyInMap2 |-> <<>>]

(* ----------------------------- the reporter --------------------------- *)

SuccessText == "Success: All files match as expected."
OnlyFirstText == "Files only in the first map:"
OnlySecondText == "Files only in the second map:"
MismatchText == "Files with hash mismatches:"
ItemText == "  - ${file}"
MismatchItemText == "  - ${path}\n    Map 1 Hash: ${map1Hash}\n    Map 2 Hash: ${map2Hash}"

\* One console.log call: the template and the values it interpolates.
Line(text, path, map1Hash, map2Hash) ==
    [text |-> text, path |-> path, map1Hash |-> map1Hash, map2Hash |-> map2Hash]

\* The bug of a success test that forgets the mismatches.
logDiscrepanciesForgetsMismatches(d) ==
    IF Len(d.onlyInMap1) = 0 /\ Len(d.onlyInMap2) = 0
    THEN <<Line(SuccessText, <<>>, <<>>, <<>>)>>
    ELSE (IF Len(d.onlyInMap1) > 0
          THEN <<Line(OnlyFirstText, <<>>, <<>>, <<>>)>> \o
               [i \in DOMAIN d.onlyInMap1 |->
                    Line(ItemText, d.onlyInMap1[i], <<>>, <<>>)]
          ELSE <<>>)
         \o
         (IF Len(d.onlyInMap2) > 0
          THEN <<Line(OnlySecondText, <<>>, <<>>, <<>>)>> \o
               [i \in DOMAIN d.onlyInMap2 |->
                    Line(ItemText, d.onlyInMap2[i], <<>>, <<>>)]
          ELSE <<>>)
         \o
         (IF Len(d.hashMismatch) > 0
          THEN <<Line(MismatchText, <<>>, <<>>, <<>>)>> \o
               [i \in DOMAIN d.hashMismatch |->
                    Line(MismatchItemText, d.hashMismatch[i].path,
                         d.hashMismatch[i].map1Hash, d.hashMismatch[i].map2Hash)]
          ELSE <<>>)

\* The console.log calls of logDiscrepancies, in order.
logDiscrepancies(d) ==
    IF Len(d.onlyInMap1) = 0 /\ Len(d.onlyInMap2) = 0 /\ Len(d.hashMismatch) = 0
    THEN <<Line(SuccessText, <<>>, <<>>, <<>>)>>
    ELSE (IF Len(d.onlyInMap1) > 0
          THEN <<Line(OnlyFirstText, <<>>, <<>>, <<>>)>> \o
               [i \in DOMAIN d.onlyInMap1 |->
                    Line(ItemText, d.onlyInMap1[i], <<>>, <<>>)]
          ELSE <<>>)
         \o
         (IF Len(d.onlyInMap2) > 0
          THEN <<Line(OnlySecondText, <<>>, <<>>, <<>>)>> \o
               [i \in DOMAIN d.onlyInMap2 |->
                    Line(ItemText, d.onlyInMap2[i], <<>>, <<>>)]
          ELSE <<>>)
         \o
         (IF Len(d.hashMismatch) > 0
          THEN <<Line(MismatchText, <<>>, <<>>, <<>>)>> \o
               [i \in DOMAIN d.hashMismatch |->
                    Line(MismatchItemText, d.hashMismatch[i].path,
                         d.hashMismatch[i].map1Hash, d.hashMismatch[i].map2Hash)]
          ELSE <<>>)

(* -------------------------------- main -------------------------------- *)

\* demandOption: true on distDir
MissingRequired(a) == a.distDir = Undefined

\* the .check callback throws
CheckFails(a) == ~Truthy(a.assetsJson) /\ ~Truthy(a.canisterId)

\* The bug of options declared without their conflicts.
ConflictsNotDeclared(a) == FALSE

\* conflicts: "canisterId" / conflicts: "assetsJson"
Conflicts(a) == a.assetsJson # Undefined /\ a.canisterId # Undefined

\* The message yargs fails with, or <<>> when the arguments are accepted.
UsageError(a) ==
    IF MissingRequired(a) THEN <<"Missing required argument: distDir">>
    ELSE IF CheckFails(a)
         THEN <<"You must specify either --assetsJson or --canisterId.">>
    ELSE IF Conflicts(a)
         THEN <<"Arguments assetsJson and canisterId are mutually exclusive">>
    ELSE <<>>

CatchPrefix == "Failed to complete process: "

\* An error thrown inside main's try block: the catch clause logs it and main
\* returns, so the process ends with Node's default exit status.
Throw(message) ==
    /\ stderr' = Append(stderr, <<CatchPrefix, message>>)
    /\ pc' = "exit"
    /\ exitCode' = <<0>>
    /\ stack' = <<>>

Init ==
    /\ argv \in Argvs
    /\ sep \in Separators
    /\ disk \in Disks
    /\ pc = "start"
    /\ asset = NoAsset
    /\ n = 0
    /\ filesMap = <<>>
    /\ expectedFilesMap = <<>>
    /\ stack = <<>>
    /\ actualFilesMap = <<>>
    /\ discrepancies = NoDiscrepancies
    /\ started = {}
    /\ stdout = <<>>
    /\ stderr = <<>>
    /\ exitCode = <<>>

\* yargs parses and validates the arguments; on a usage error it prints the
\* message and exits with status 1, otherwise main calls the adapter, which
\* runs up to its first await.
ParseArgs ==
    /\ pc = "start"
    /\ IF UsageError(argv) # <<>>
       THEN /\ stderr' = Append(stderr, <<"", UsageError(argv)[1]>>)
            /\ exitCode' = <<1>>
            /\ pc' = "exit"
            /\ UNCHANGED started
       ELSE /\ IF Truthy(argv.assetsJson)
               THEN pc' = "readFile" /\ started' = started \cup {"parseAssetsJson"}
               ELSE pc' = "list" /\ started' = started \cup {"getAssetsFromCanister"}
            /\ UNCHANGED <<stderr, exitCode>>
    /\ UNCHANGED <<argv, sep, disk, asset, n, filesMap, expectedFilesMap, stack,
                   actualFilesMap, discrepancies, stdout>>

\* fs.readFile and JSON.parse of the manifest
ReadAssetsJson ==
    /\ pc = "readFile"
    /\ \/ /\ \E message \in {"ENOENT: no such file or directory",
                             "Unexpected token in JSON"} : Throw(message)
          /\ UNCHANGED <<n, filesMap>>
       \/ /\ pc' = "parseAssetsJson"
          /\ n' = 0
          /\ filesMap' = <<>>
          /\ UNCHANGED <<stderr, exitCode, stack>>
    /\ UNCHANGED <<argv, sep, disk, asset, expectedFilesMap, actualFilesMap,
                   discrepancies, started, stdout>>

\* One iteration of parseAssetsJson's loop, on the next record of the array.
ParseAssetsJsonStep ==
    /\ pc = "parseAssetsJson"
    /\ n < MaxRecords
    /\ \E a \in FileAssetRecords :
         LET identityEncoding == FindIdentity(a.encodings) IN
         /\ asset' = a
         /\ IF identityEncoding = <<>>
            THEN /\ n' = n + 1
                 /\ UNCHANGED <<filesMap, pc, stderr, exitCode, stack>>
            ELSE IF MissingDigest(identityEncoding[1])
            THEN /\ Throw("Cannot read properties of undefined (reading 'toLowerCase')")
                 /\ UNCHANGED <<n, filesMap>>
            ELSE /\ filesMap' = Put(filesMap, a.key, ManifestDigest(identityEncoding[1]))
                 /\ n' = n + 1
                 /\ UNCHANGED <<pc, stderr, exitCode, stack>>
    /\ UNCHANGED <<argv, sep, disk, expectedFilesMap, actualFilesMap,
                   discrepancies, started, stdout>>

\* The adapter returns its map; main assigns it and calls createFilesMap,
\* which runs up to its await of fs.readdir.
AdapterReturn ==
    /\ pc \in {"parseAssetsJson", "getAssetsFromCanister"}
    /\ expectedFilesMap' = filesMap
    /\ started' = started \cup {"createFilesMap"}
    /\ pc' = "createFilesMap"
    /\ UNCHANGED <<argv, sep, disk, asset, n, filesMap, stack, actualFilesMap,
                   discrepancies, stdout, stderr, exitCode>>

\* actor.list({}) answers or fails
ListAssets ==
    /\ pc = "list"
    /\ \/ /\ Throw("Failed to fetch")
          /\ UNCHANGED <<n, filesMap>>
       \/ /\ pc' = "getAssetsFromCanister"
          /\ n' = 0
          /\ filesMap' = <<>>
          /\ UNCHANGED <<stderr, exitCode, stack>>
    /\ UNCHANGED <<argv, sep, disk, asset, expectedFilesMap, actualFilesMap,
                   discrepancies, started, stdout>>

\* One iteration of getAssetsFromCanister's loop.
GetAssetsStep ==
    /\ pc = "getAssetsFromCanister"
    /\ n < MaxRecords
    /\ \E a \in CanisterAssetRecords :
         LET identityEncoding == FindIdentity(a.encodings) IN
         /\ asset' = a
         /\ IF identityEncoding = <<>>
            THEN /\ n' = n + 1
                 /\ UNCHANGED <<filesMap, pc, stderr, exitCode, stack>>
            ELSE IF MissingDigest(identityEncoding[1])
            THEN /\ Throw("undefined is not iterable")
                 /\ UNCHANGED <<n, filesMap>>
            ELSE /\ filesMap' = Put(filesMap, a.key, CanisterDigest(identityEncoding[1]))
                 /\ n' = n + 1
                 /\ UNCHANGED <<pc, stderr, exitCode, stack>>
    /\ UNCHANGED <<argv, sep, disk, expectedFilesMap, actualFilesMap,
                   discrepancies, started, stdout>>

(* ------------------------- the directory walker ----------------------- *)

Top == stack[Len(stack)]

\* The frame of a createFilesMap call whose readdir has answered.
Frame(dir) == [dir |-> dir, entries |-> Readdir(dir), i |-> 1, filesMap |-> <<>>]

Finished(frame) == frame.i > Len(frame.entries)

\* fs.readdir of the dist directory answers or fails
CreateFilesMapRoot ==
    /\ pc = "createFilesMap"
    /\ stack = <<>>
    /\ \/ Throw("ENOENT: no such file or directory, scandir")
       \/ /\ stack' = <<Frame(DistDirPath)>>
          /\ UNCHANGED <<pc, stderr, exitCode>>
    /\ UNCHANGED <<argv, sep, disk, asset, n, filesMap, expectedFilesMap,
                   actualFilesMap, discrepancies, started, stdout>>

\* The entry is a directory: the recursive call, up to its readdir's answer.
CreateFilesMapRecurse ==
    /\ pc = "createFilesMap"
    /\ stack # <<>>
    /\ ~Finished(Top)
    /\ Top.entries[Top.i].isDirectory
    /\ LET fullPath == Join(Top.dir, Top.entries[Top.i].name) IN
       \/ Throw("EACCES: permission denied, scandir")
       \/ /\ stack' = Append(stack, Frame(fullPath))
          /\ UNCHANGED <<pc, stderr, exitCode>>
    /\ UNCHANGED <<argv, sep, disk, asset, n, filesMap, expectedFilesMap,
                   actualFilesMap, discrepancies, started, stdout>>

\* The bug of a walk that skips a file it cannot read.
HashFileStepSkipsUnreadable ==
    /\ pc = "createFilesMap"
    /\ stack # <<>>
    /\ ~Finished(Top)
    /\ ~Top.entries[Top.i].isDirectory
    /\ LET fullPath == Join(Top.dir, Top.entries[Top.i].name)
           relativePath == Relative(DistDirPath, fullPath)
       IN
       \/ stack' = [stack EXCEPT ![Len(stack)] = [@ EXCEPT !.i = @ + 1]]
       \/ stack' = [stack EXCEPT ![Len(stack)] =
                      [@ EXCEPT !.filesMap =
                           Put(@, FileKey(relativePath), hashFile(fullPath)),
                         !.i = @ + 1]]
    /\ UNCHANGED <<argv, sep, disk, pc, asset, n, filesMap, expectedFilesMap,
                   actualFilesMap, discrepancies, started, stdout, stderr,
                   exitCode>>

\* The entry is a file: hashFile answers or fails.
HashFileStep ==
    /\ pc = "createFilesMap"
    /\ stack # <<>>
    /\ ~Finished(Top)
    /\ ~Top.entries[Top.i].isDirectory
    /\ LET fullPath == Join(Top.dir, Top.entries[Top.i].name)
           relativePath == Relative(DistDirPath, fullPath)
       IN
       \/ Throw("EACCES: permission denied, open")
       \/ /\ stack' = [stack EXCEPT ![Len(stack)] =
                         [@ EXCEPT !.filesMap =
                              Put(@, FileKey(relativePath), hashFile(fullPath)),
                            !.i = @ + 1]]
          /\ UNCHANGED <<pc, stderr, exitCode>>
    /\ UNCHANGED <<argv, sep, disk, asset, n, filesMap, expectedFilesMap,
                   actualFilesMap, discrepancies, started, stdout>>

\* A recursive call returns: the caller merges its map and moves on.
CreateFilesMapReturn ==
    /\ pc = "createFilesMap"
    /\ Len(stack) > 1
    /\ Finished(Top)
    /\ stack' = [SubSeq(stack, 1, Len(stack) - 1) EXCEPT ![Len(stack) - 1] =
                    [@ EXCEPT !.filesMap = ObjectAssign(@, Top.filesMap),
                              !.i = @ + 1]]
    /\ UNCHANGED <<argv, sep, disk, pc, asset, n, filesMap, expectedFilesMap,
                   actualFilesMap, discrepancies, started, stdout, stderr,
                   exitCode>>

\* The outermost createFilesMap returns: main compares, reports and returns.
MainContinue ==
    /\ pc = "createFilesMap"
    /\ Len(stack) = 1
    /\ Finished(Top)
    /\ actualFilesMap' = Top.filesMap
    /\ discrepancies' = compareFileMaps(expectedFilesMap, actualFilesMap')
    /\ stdout' = stdout \o logDiscrepancies(discrepancies')
    /\ started' = started \cup {"compareFileMaps", "logDiscrepancies"}
    /\ stack' = <<>>
    /\ pc' = "exit"
    /\ exitCode' = <<0>>
    /\ UNCHANGED <<argv, sep, disk, asset, n, filesMap, expectedFilesMap, stderr>>

Next ==
    \/ ParseArgs
    \/ ReadAssetsJson
    \/ ParseAssetsJsonStep
    \/ ListAssets
    \/ GetAssetsStep
    \/ AdapterReturn
    \/ CreateFilesMapRoot
    \/ CreateFilesMapRecurse
    \/ HashFileStep
    \/ CreateFilesMapReturn
    \/ MainContinue

Spec == Init /\ [][Next]_vars

(* ------------------------------ properties ---------------------------- *)

\* main has called compareFileMaps.
Compared == "compareFileMaps" \in started

NoDuplicates(s) == \A i, j \in DOMAIN s : i # j => s[i] # s[j]

MismatchPaths(d) == {d.hashMismatch[i].path : i \in DOMAIN d.hashMismatch}

\* C1: compareFileMaps(expected, actual) classifies every key exactly once:
\* onlyInMap1 is the keys of expected absent from actual, onlyInMap2 the keys
\* of actual absent from expected, hashMismatch one {path, expected digest,
\* actual digest} per key of both maps whose digests differ; a key of both
\* maps with equal digests is in no list, and no key is listed twice.
C1_ClassifiesEachKeyOnce ==
    Compared =>
      LET d == discrepancies
          E == expectedFilesMap
          A == actualFilesMap
          differing == {k \in Keys(E) \cap Keys(A) : Get(E, k) # Get(A, k)}
      IN  /\ NoDuplicates(d.onlyInMap1)
          /\ Range(d.onlyInMap1) = Keys(E) \ Keys(A)
          /\ NoDuplicates(d.onlyInMap2)
          /\ Range(d.onlyInMap2) = Keys(A) \ Keys(E)
          /\ \A i, j \in DOMAIN d.hashMismatch :
                i # j => d.hashMismatch[i].path # d.hashMismatch[j].path
          /\ Range(d.hashMismatch) =
                {[path |-> k, map1Hash |-> Get(E, k), map2Hash |-> Get(A, k)] :
                    k \in differing}
          /\ Range(d.onlyInMap1) \cap Range(d.onlyInMap2) = {}
          /\ Range(d.onlyInMap1) \cap MismatchPaths(d) = {}
          /\ Range(d.onlyInMap2) \cap MismatchPaths(d) = {}

\* A comparison whose three lists are all non-empty.
C1_Witness ==
    /\ Compared
    /\ sep = "/"
    /\ discrepancies.onlyInMap1 # <<>>
    /\ discrepancies.onlyInMap2 # <<>>
    /\ discrepancies.hashMismatch # <<>>

C3_MissingDigestIsNotAnError ==
    (/\ pc = "exit"
     /\ FindIdentity(asset.encodings) # <<>>
     /\ FindIdentity(asset.encodings)[1].sha256 = <<>>)
    => "createFilesMap" \in started

\* C4: a run in which an error reached main's catch clause ends with a
\* failure status, and only runs that compared and reported end with status 0.
C4_ErrorsExitWithFailure ==
    pc = "exit" =>
      /\ (\E i \in DOMAIN stderr : stderr[i][1] = CatchPrefix) => exitCode # <<0>>
      /\ exitCode = <<0>> => "logDiscrepancies" \in started

BothSet(a) == a.assetsJson # Undefined /\ a.canisterId # Undefined

NeitherSet(a) == a.assetsJson = Undefined /\ a.canisterId = Undefined

\* C5: with both --assetsJson and --canisterId, or with neither, the run is
\* a usage error and none of parseAssetsJson, getAssetsFromCanister and
\* createFilesMap is ever started.
C5_UsageErrorBeforeAnyWork ==
    (BothSet(argv) \/ NeitherSet(argv)) =>
      /\ started = {}
      /\ pc \in {"start", "exit"}
      /\ stack = <<>>
      /\ stdout = <<>>
      /\ pc = "exit" => (exitCode = <<1>> /\ Len(stderr) = 1 /\ stderr[1][1] = "")

\* Both options given, with --distDir: yargs' conflicts rule ended the run.
C5_Witness ==
    /\ pc = "exit"
    /\ argv.distDir # Undefined
    /\ Truthy(argv.assetsJson)
    /\ Truthy(argv.canisterId)
    /\ exitCode = <<1>>

\* C6: every key of the map createFilesMap returns begins with "/" and has
\* no other separator than "/", on every host.
C6_KeysUseForwardSlashes ==
    \A k \in Keys(actualFilesMap) :
       /\ k[1] = "/"
       /\ \A i \in DOMAIN k : k[i] # "\\"

\* C7: the keys of compareFileMaps(A, B).onlyInMap1 are the keys of
\* compareFileMaps(B, A).onlyInMap2.
C7_OnlyInHalvesMirror ==
    Compared =>
      Range(compareFileMaps(expectedFilesMap, actualFilesMap).onlyInMap1) =
         Range(compareFileMaps(actualFilesMap, expectedFilesMap).onlyInMap2)

\* Maps that share a key and each have a key of their own.
C7_Witness ==
    /\ Compared
    /\ Keys(expectedFilesMap) \cap Keys(actualFilesMap) # {}
    /\ discrepancies.onlyInMap1 # <<>>
    /\ discrepancies.onlyInMap2 # <<>>

IdentityIndexes(a) ==
    {i \in DOMAIN a.encodings : a.encodings[i].content_encoding = "identity"}

\* The first identity entry of a record that has one.
FirstIdentity(a) ==
    a.encodings[CHOOSE i \in IdentityIndexes(a) :
                    \A j \in 1..(i - 1) : j \notin IdentityIndexes(a)]

HexValue(c) == (CHOOSE i \in DOMAIN HexDigits : HexDigits[i] = c) - 1

\* h is the lower-case hex spelling of the bytes b.
IsLowerHexOf(h, b) ==
    /\ Len(h) = 2 * Len(b)
    /\ \A i \in DOMAIN h : h[i] \in Range(HexDigits)
    /\ \A i \in DOMAIN b : 16 * HexValue(h[2 * i - 1]) + HexValue(h[2 * i]) = b[i]

\* h is the string s in lower case.
IsLowerCaseOf(h, s) ==
    /\ Len(h) = Len(s)
    /\ \A i \in DOMAIN s : h[i] = LowerChar(s[i])

\* C8: each record an adapter gets through changes at most the entry of its
\* own key; with no identity entry it changes nothing, otherwise the entry
\* becomes the lower-case hex of the digest of the first identity entry.
C8_FirstIdentityEntryWins ==
    [][ (pc \in {"parseAssetsJson", "getAssetsFromCanister"} /\ n' = n + 1) =>
          LET a == asset' IN
          /\ Len(filesMap') <= Len(filesMap) + 1
          /\ \A k \in (Keys(filesMap) \cup Keys(filesMap')) \ {a.key} :
                /\ HasOwnProperty(filesMap, k)
                /\ HasOwnProperty(filesMap', k)
                /\ Get(filesMap', k) = Get(filesMap, k)
          /\ IF IdentityIndexes(a) = {}
             THEN filesMap' = filesMap
             ELSE /\ FirstIdentity(a).sha256 # <<>>
                  /\ HasOwnProperty(filesMap', a.key)
                  /\ IF pc = "parseAssetsJson"
                     THEN IsLowerCaseOf(Get(filesMap', a.key),
                                        FirstIdentity(a).sha256[1])
                     ELSE IsLowerHexOf(Get(filesMap', a.key),
                                       FirstIdentity(a).sha256[1])
      ]_vars

\* A record with two identity entries of different digests went through, and
\* the map holds the first one's digest in lower case.
C8_Witness ==
    /\ pc = "parseAssetsJson"
    /\ n >= 1
    /\ Len(asset.encodings) = 2
    /\ asset.encodings[1] = [content_encoding |-> "identity",
                             sha256 |-> << <<"0", "A">> >>]
    /\ asset.encodings[2] = [content_encoding |-> "identity",
                             sha256 |-> << <<"d", "e", "a", "d">> >>]
    /\ Get(filesMap, asset.key) = <<"0", "a">>

RECURSIVE DiskFiles(_, _)
\* The regular files below `entries`: their names from the root, and digest.
DiskFiles(entries, prefix) ==
    UNION {IF e.isDirectory
           THEN DiskFiles(e.children, Append(prefix, e.name))
           ELSE {[names |-> Append(prefix, e.name), sha256 |-> e.sha256]} :
           e \in Range(entries)}

\* The map holds exactly the files of the dist directory, with their digests.
CoversDisk(map) ==
    /\ NoDuplicates(map)
    /\ {NamesOf(Tail(k)) : k \in Keys(map)} = {f.names : f \in DiskFiles(disk, <<>>)}
    /\ Len(map) = Cardinality(DiskFiles(disk, <<>>))
    /\ \A i \in DOMAIN map :
          \E f \in DiskFiles(disk, <<>>) :
             /\ f.names = NamesOf(Tail(map[i].path))
             /\ IsLowerHexOf(map[i].hash, f.sha256)

\* C9: compareFileMaps and logDiscrepancies run only after the adapter has
\* returned its map and the walk has covered the whole directory, both
\* without error; after any error no map is returned, nothing is compared
\* and nothing is printed on the output stream.
C9_NoPartialSuccess ==
    /\ (Compared \/ "logDiscrepancies" \in started \/ stdout # <<>>) =>
          /\ stderr = <<>>
          /\ stack = <<>>
          /\ started \cap {"parseAssetsJson", "getAssetsFromCanister"} # {}
          /\ "createFilesMap" \in started
          /\ expectedFilesMap = filesMap
          /\ CoversDisk(actualFilesMap)
    /\ stderr # <<>> =>
          /\ ~Compared
          /\ "logDiscrepancies" \notin started
          /\ stdout = <<>>
          /\ actualFilesMap = <<>>
          /\ discrepancies = NoDiscrepancies
          /\ pc = "exit"

\* The walk had hashed a file of the root when listing a subdirectory failed.
C9_Witness ==
    /\ pc = "exit"
    /\ disk # <<>>
    /\ ~disk[1].isDirectory
    /\ stderr = << <<CatchPrefix, "EACCES: permission denied, scandir">> >>
    /\ expectedFilesMap # <<>>
    /\ ~Compared

Count(lines, text) == Cardinality({i \in DOMAIN lines : lines[i].text = text})

Listing(s) == IF Len(s) = 0 THEN 0 ELSE Len(s) + 1

\* C10: logDiscrepancies prints the success line iff the three lists are
\* empty, and then nothing else; otherwise one label per non-empty list and
\* none for an empty one, each followed by that list's paths (for a mismatch
\* the path and both digests), in the order of the list.
C10_ReportRendersDiscrepancy ==
    "logDiscrepancies" \in started =>
      LET d == discrepancies
          empty == d.onlyInMap1 = <<>> /\ d.onlyInMap2 = <<>> /\ d.hashMismatch = <<>>
          at1 == 0
          at2 == at1 + Listing(d.onlyInMap1)
          at3 == at2 + Listing(d.onlyInMap2)
      IN  /\ (Count(stdout, SuccessText) = 1) <=> empty
          /\ Count(stdout, SuccessText) <= 1
          /\ empty => Len(stdout) = 1
          /\ ~empty => Len(stdout) = at3 + Listing(d.hashMismatch)
          /\ Count(stdout, OnlyFirstText) = (IF d.onlyInMap1 = <<>> THEN 0 ELSE 1)
          /\ Count(stdout, OnlySecondText) = (IF d.onlyInMap2 = <<>> THEN 0 ELSE 1)
          /\ Count(stdout, MismatchText) = (IF d.hashMismatch = <<>> THEN 0 ELSE 1)
          /\ ~empty =>
               /\ d.onlyInMap1 # <<>> => stdout[at1 + 1].text = OnlyFirstText
               /\ \A i \in DOMAIN d.onlyInMap1 :
                     stdout[at1 + 1 + i] = Line(ItemText, d.onlyInMap1[i], <<>>, <<>>)
               /\ d.onlyInMap2 # <<>> => stdout[at2 + 1].text = OnlySecondText
               /\ \A i \in DOMAIN d.onlyInMap2 :
                     stdout[at2 + 1 + i] = Line(ItemText, d.onlyInMap2[i], <<>>, <<>>)
               /\ d.hashMismatch # <<>> => stdout[at3 + 1].text = MismatchText
               /\ \A i \in DOMAIN d.hashMismatch :
                     stdout[at3 + 1 + i] =
                        Line(MismatchItemText, d.hashMismatch[i].path,
                             d.hashMismatch[i].map1Hash, d.hashMismatch[i].map2Hash)

\* A report with a mismatch and a missing file but no extra file.
C10_Witness ==
    /\ "logDiscrepancies" \in started
    /\ discrepancies.onlyInMap1 # <<>>
    /\ discrepancies.hashMismatch # <<>>
    /\ discrepancies.onlyInMap2 = <<>>
    /\ Len(stdout) = 4

====
